---- MODULE Spec2Model ----
(***************************************************************************)
(* A model of the quote lifecycle (src/iq/quotes.py) and of the paged      *)
(* listing built on it (src/iq/browse.py).                                 *)
(*                                                                         *)
(* `cursor` is the page specifier of one request and its encoded text, as  *)
(* PageSpecifier.encode and PageSpecifier.decode exchange it with a client.*)
(* `yielded` is a dialog text given to LineFormatterRegistry.parseDialog and*)
(* the Lines it yields.                                                    *)
(*                                                                         *)
(* The datastore is `db` (entities by key) and `accounts`; `mem` holds the *)
(* live Python instance of each quote, which an operation mutates and      *)
(* which reaches the datastore only through put().                         *)
(***************************************************************************)
EXTENDS Integers, Sequences, FiniteSets, TLC

VARIABLES db, mem, accounts, events, now, nextKey, steps, failures, result, edited,
          template, seen, dupes, cursor, yielded

vars == <<db, mem, accounts, events, now, nextKey, steps, failures, result, edited,
          template, seen, dupes, cursor, yielded>>

lifecycleVars == <<mem, accounts, events, now, nextKey, steps, failures, result, edited>>
browseVars == <<template, seen, dupes>>
cursorVars == <<cursor>>
parserVars == <<yielded>>

(* ---------------------------------------------------------------- bounds *)

\* Quotes in the store of a listing traversal.
BrowseQuotes == 4
\* Distinct timestamps of a listing traversal.
MaxStamp == 2
\* Largest page size a traversal is started with.
MaxSize == 3
\* Drafts or deleted quotes among the quotes of a listing traversal.
MaxHidden == 1
\* Keys the datastore hands out to quotes of the lifecycle.
MaxKeys == 3
\* The last reading of the clock.
MaxTime == 2
\* Steps of one run of the lifecycle.
MaxSteps == 5
\* Transactions that fail to commit.
MaxFailures == 1
\* Characters of a dialog text given to the parser.
MaxDialogLen == 5
\* Characters of a line given to a formatter.
MaxLineLen == 3
\* Quotes in the store of a query by build time.
BuiltQuotes == 3

(* ------------------------------------------------------------- constants *)

\* Python's None, for a timestamp, a key or a reference.
None == 0

DEFAULT_SIZE == 3
MAX_PAGE_SIZE == 20

Min(a, b) == IF a < b THEN a ELSE b

(* ------------------------------------------------------------------ text *)

\* A string is a sequence of one-character strings.
LowerCase == <<"a","b","c","d","e","f","g","h","i","j","k","l","m",
               "n","o","p","q","r","s","t","u","v","w","x","y","z">>
UpperCase == <<"A","B","C","D","E","F","G","H","I","J","K","L","M",
               "N","O","P","Q","R","S","T","U","V","W","X","Y","Z">>
Digits == <<"0","1","2","3","4","5","6","7","8","9">>

\* \s, \d and \w of Python 2's re (no UNICODE or LOCALE flag).
IsSpace(c) == c \in {" ", "\t", "\n", "\r", "\f"}
IsDigit(c) == \E i \in 1..Len(Digits) : Digits[i] = c
IsWord(c) ==
  \/ IsDigit(c)
  \/ c = "_"
  \/ \E i \in 1..Len(LowerCase) : LowerCase[i] = c \/ UpperCase[i] = c

\* int() of one decimal digit
DigitValue(c) == (CHOOSE i \in 1..Len(Digits) : Digits[i] = c) - 1

\* str.lower()
lower(s) ==
  [i \in 1..Len(s) |->
     IF \E j \in 1..Len(UpperCase) : UpperCase[j] = s[i]
       THEN LowerCase[CHOOSE j \in 1..Len(UpperCase) : UpperCase[j] = s[i]]
       ELSE s[i]]

\* The length of the match of ^(\s*) at position `from` of s.
SpaceRun(s, from) ==
  LET stops == {i \in from..Len(s) : ~IsSpace(s[i])}
  IN  IF stops = {} THEN Len(s) + 1 - from
      ELSE (CHOOSE i \in stops : \A j \in stops : i <= j) - from

\* str.strip()
strip(s) ==
  LET keep == {i \in 1..Len(s) : ~IsSpace(s[i])}
  IN  IF keep = {} THEN <<>>
      ELSE SubSeq(s, CHOOSE i \in keep : \A j \in keep : i <= j,
                     CHOOSE i \in keep : \A j \in keep : i >= j)

\* NL.split(dialog), NL = \r?\n
RECURSIVE SplitNL(_)
SplitNL(s) ==
  LET nls == {i \in 1..Len(s) : s[i] = "\n"}
  IN  IF nls = {} THEN <<s>>
      ELSE LET n == CHOOSE i \in nls : \A j \in nls : i <= j
               e == IF n > 1 /\ s[n - 1] = "\r" THEN n - 2 ELSE n - 1
           IN  <<SubSeq(s, 1, e)>> \o SplitNL(SubSeq(s, n + 1, Len(s)))

\* ' '.join(parts)
RECURSIVE JoinSpace(_)
JoinSpace(parts) ==
  IF Len(parts) = 0 THEN <<>>
  ELSE IF Len(parts) = 1 THEN parts[1]
  ELSE parts[1] \o <<" ">> \o JoinSpace(Tail(parts))

\* line[:range[0]] + line[range[1]:]
Excise(line, range) ==
  SubSeq(line, 1, range[1]) \o SubSeq(line, range[2] + 1, Len(line))

(* ------------------------------------------------------------ formatters *)

NoMatch == [matched |-> FALSE, error |-> "none"]

At(s, i) == IF i >= 1 /\ i <= Len(s) THEN s[i] ELSE ""

\* The match object of TIME with its groups converted: datetime.time()
\* raises ValueError for an hour above 23 or a minute or second above 59;
\* the range is in Python's half-open offsets and ends after the trailing \s*.
TimeEnd(line, hour, minute, second, t) ==
  IF hour > 23 \/ minute > 59 \/ second > 59
    THEN [matched |-> FALSE, error |-> "ValueError"]
    ELSE [matched |-> TRUE, error |-> "none",
          kind |-> "TimestampFormatter", multiple |-> FALSE,
          range |-> <<0, t + SpaceRun(line, t) - 1>>,
          params |-> [timestamp |-> <<hour, minute, second>>]]

\* [\])]? at position c
TimeClose(line, hour, minute, second, c) ==
  TimeEnd(line, hour, minute, second,
          IF At(line, c) \in {")", "]"} THEN c + 1 ELSE c)

\* (:(?P<second>\d\d))? at position c
TimeSecond(line, hour, minute, c) ==
  IF At(line, c) = ":" /\ IsDigit(At(line, c + 1)) /\ IsDigit(At(line, c + 2))
    THEN TimeClose(line, hour, minute,
                   10 * DigitValue(line[c + 1]) + DigitValue(line[c + 2]), c + 3)
    ELSE TimeClose(line, hour, minute, 0, c)

\* (?P<minute>\d\d) at position m
TimeMinute(line, hour, m) ==
  IF IsDigit(At(line, m)) /\ IsDigit(At(line, m + 1))
    THEN TimeSecond(line, hour,
                    10 * DigitValue(line[m]) + DigitValue(line[m + 1]), m + 2)
    ELSE NoMatch

\* (?P<hour>\d?\d): at position p, the two-digit hour tried first
TimeHour(line, p) ==
  IF IsDigit(At(line, p)) /\ IsDigit(At(line, p + 1)) /\ At(line, p + 2) = ":"
    THEN TimeMinute(line, 10 * DigitValue(line[p]) + DigitValue(line[p + 1]), p + 3)
  ELSE IF IsDigit(At(line, p)) /\ At(line, p + 1) = ":"
    THEN TimeMinute(line, DigitValue(line[p]), p + 2)
  ELSE NoMatch

\* [\[(]? after ws characters of whitespace
TimeOpen(line, ws) ==
  TimeHour(line, IF At(line, ws + 1) \in {"[", "("} THEN ws + 2 ELSE ws + 1)

\* TimestampFormatter.match: TIME anchored at the start of the line
TimestampFormatter_match(line) == TimeOpen(line, SpaceRun(line, 1))

\* The grave accent, which a TLA+ string cannot hold, is the atom "grave".
IsNickChar(c) == IsWord(c) \/ c \in {"grave", "[", "]", "{", "}", "\\", "|", "-"}
IsNickEnd(c) == c \in {"]", ">", ")", ":"}

\* The ways NICK matches a prefix of the line: <<a, b, c, d>> = the
\* whitespace taken by \s*, whether the opening bracket and the nickflag are
\* taken, and the length of the nick; [\]>\):]+ must follow the nick.
NickParses(line) ==
  {x \in (0..SpaceRun(line, 1)) \X {0, 1} \X {0, 1} \X (1..Len(line)) :
     LET a == x[1]
         n == a + x[2] + x[3] + 1
     IN  /\ (x[2] = 1 => At(line, a + 1) \in {"[", "<", "("})
         /\ (x[3] = 1 => (IsSpace(At(line, a + x[2] + 1))
                          \/ At(line, a + x[2] + 1) \in {"@", "+"}))
         /\ n + x[4] <= Len(line)
         /\ \A i \in n..(n + x[4] - 1) : IsNickChar(line[i])
         /\ IsNickEnd(line[n + x[4]])}

\* The regex engine tries the greedy choice of each item first, the earlier
\* item outermost.
NickPrefers(x, y) ==
  \/ x[1] > y[1]
  \/ x[1] = y[1] /\ x[2] > y[2]
  \/ x[1] = y[1] /\ x[2] = y[2] /\ x[3] > y[3]
  \/ x[1] = y[1] /\ x[2] = y[2] /\ x[3] = y[3] /\ x[4] >= y[4]

\* NORMALIZATION.sub('', nick): [^\w\d] removed
RECURSIVE Normalize(_)
Normalize(nick) ==
  IF nick = <<>> THEN <<>>
  ELSE (IF IsWord(Head(nick)) THEN <<Head(nick)>> ELSE <<>>) \o Normalize(Tail(nick))

\* The last index of the run [\]>\):]+ that starts at `from`
EndRun(line, from) ==
  CHOOSE i \in from..Len(line) :
    /\ \A j \in from..i : IsNickEnd(line[j])
    /\ ~IsNickEnd(At(line, i + 1))

\* A match object of NICK made whatever the nick is.
NickResultOfAnyNick(line, nickflag, nick, last) ==
  [matched |-> TRUE, error |-> "none",
   kind |-> "NickFormatter", multiple |-> FALSE,
   range |-> <<0, IF IsSpace(At(line, last + 1)) THEN last + 1 ELSE last>>,
   params |-> [normalized_nick |-> lower(Normalize(nick)),
               nickflag |-> nickflag,
               nick |-> nick]]

\* The match object of NICK for the nick and the end of its closing run;
\* \s? takes one more character. A nick of digits only is no match.
NickResult(line, nickflag, nick, last) ==
  IF \A i \in 1..Len(nick) : IsDigit(nick[i]) THEN NoMatch
  ELSE [matched |-> TRUE, error |-> "none",
        kind |-> "NickFormatter", multiple |-> FALSE,
        range |-> <<0, IF IsSpace(At(line, last + 1)) THEN last + 1 ELSE last>>,
        params |-> [normalized_nick |-> lower(Normalize(nick)),
                    nickflag |-> nickflag,
                    nick |-> nick]]

\* The groups of the parse x, whose nick starts at index n
NickGroups(line, x, n) ==
  NickResult(line,
             IF x[3] = 1 THEN <<line[n - 1]>> ELSE <<>>,
             SubSeq(line, n, n + x[4] - 1),
             EndRun(line, n + x[4]))

\* The nick of the parse x starts after the whitespace, the bracket and the
\* nickflag it takes.
NickStart(line, x) == NickGroups(line, x, x[1] + x[2] + x[3] + 1)

\* The parse the regex engine finds among `parses`
NickChoose(line, parses) ==
  IF parses = {} THEN NoMatch
  ELSE NickStart(line, CHOOSE y \in parses : \A z \in parses : NickPrefers(y, z))

\* NickFormatter.match
NickFormatter_match(line) == NickChoose(line, NickParses(line))

\* A registry whose classes were defined with the nick formatter first.
registryNickFirst == <<"LineFormatter", "NickFormatter", "TimestampFormatter">>

\* LineFormatterRegistry.registry: the formatter classes in definition
\* order; the base class LineFormatter never matches.
registry == <<"LineFormatter", "TimestampFormatter", "NickFormatter">>

match(formatter, line) ==
  CASE formatter = "TimestampFormatter" -> TimestampFormatter_match(line)
    [] formatter = "NickFormatter" -> NickFormatter_match(line)
    [] OTHER -> NoMatch

\* The matches of parse's loop from the formatter's match m on: m is
\* yielded if it matched, followed by the matches of the rest of the loop.
Yield(m, rest) ==
  IF ~m.matched \/ rest.error # "none" THEN rest
  ELSE [error |-> "none",
        matches |-> <<[kind |-> m.kind, range |-> m.range, params |-> m.params,
                       multiple |-> m.multiple]>> \o rest.matches]

\* LineFormatterRegistry.parse: the matches of `line`, each formatter run on
\* the text left by the matches before it.
RECURSIVE parse(_, _)
parseFrom(line, f, m) ==
  IF m.error # "none" THEN [error |-> m.error, matches |-> <<>>]
  ELSE Yield(m, parse(IF m.matched THEN Excise(line, m.range) ELSE line,
                      IF m.matched /\ m.multiple THEN f ELSE f + 1))

parse(line, f) ==
  IF f > Len(registry) THEN [error |-> "none", matches |-> <<>>]
  ELSE parseFrom(line, f, match(registry[f], line))

\* Line.__init__ given what parse returned or raised
Formatted(line, r) ==
  [error |-> r.error, line |-> [original |-> line, formatting |-> r.matches]]

\* A Line that is parsed whether or not the formatting is to be preserved.
LineAlwaysParsed(line, preserve_formatting) == Formatted(line, parse(line, 1))

\* Line.__init__
Line(line, preserve_formatting) ==
  IF preserve_formatting
    THEN [error |-> "none", line |-> [original |-> line, formatting |-> <<>>]]
    ELSE Formatted(line, parse(line, 1))

\* The loop of parseDialog over the physical lines from index k on.
RECURSIVE ParseLoop(_, _, _, _)
ParseLoop(physical, k, line_start_indent, cur_line) ==
  IF k > Len(physical)
    THEN IF cur_line # <<>> THEN <<JoinSpace(cur_line)>> ELSE <<>>
  ELSE
    LET indent == SpaceRun(physical[k], 1)
    IN  IF indent <= line_start_indent
          THEN (IF cur_line # <<>> THEN <<JoinSpace(cur_line)>> ELSE <<>>)
               \o ParseLoop(physical, k + 1, indent, <<strip(physical[k])>>)
          ELSE ParseLoop(physical, k + 1, line_start_indent,
                         Append(cur_line, strip(physical[k])))

\* A Line followed by the Lines made after it; the first error is raised.
Lines(made, rest) ==
  IF made.error # "none" THEN [error |-> made.error, lines |-> <<>>]
  ELSE IF rest.error # "none" THEN rest
  ELSE [error |-> "none", lines |-> <<made.line>> \o rest.lines]

\* for line in cls.parseDialog(...): yield Line(...)
RECURSIVE MakeLines(_, _)
MakeLines(logical, preserve_formatting) ==
  IF logical = <<>> THEN [error |-> "none", lines |-> <<>>]
  ELSE Lines(Line(Head(logical), preserve_formatting),
             MakeLines(Tail(logical), preserve_formatting))

\* LineFormatterRegistry.parseDialog: the Lines of a dialog, or the error
\* the first failing Line raises.
parseDialog(dialog, preserve_formatting) ==
  MakeLines(ParseLoop(SplitNL(strip(dialog)), 1, 0, <<>>), preserve_formatting)

\* Quote.getFormattedDialog for one Line: the text with each match's range
\* removed in turn, and the matches' params merged.
RECURSIVE RenderText(_, _)
RenderText(text, formatting) ==
  IF formatting = <<>> THEN text
  ELSE RenderText(Excise(text, Head(formatting).range), Tail(formatting))

\* Quote.getFormattedDialog for one Line: params.update(formatter.params)
\* for each match in turn, a later match's value replacing an earlier one's.
RECURSIVE RenderParams(_, _)
RenderParams(params, formatting) ==
  IF formatting = <<>> THEN params
  ELSE RenderParams(Head(formatting).params @@ params, Tail(formatting))

(* ------------------------------------------------------------ the query *)

\* The rows of `store` a query selects: ancestor, draft, deleted and range
\* filters of getQuotesByTimestamp.
Matching(store, property, start, descending, include_drafts, ancestor) ==
  {k \in DOMAIN store :
     /\ (ancestor # None => store[k].owner = ancestor)
     /\ (~include_drafts => store[k].draft = FALSE)
     /\ store[k].deleted = FALSE
     /\ (start # None =>
           IF descending THEN store[k][property] <= start
                         ELSE store[k][property] >= start)}

\* The datastore's order of two rows: by the sort property in the query's
\* direction, rows of equal value by key.
Before(store, property, descending, a, b) ==
  IF store[a][property] = store[b][property] THEN a < b
  ELSE IF descending THEN store[a][property] > store[b][property]
                     ELSE store[a][property] < store[b][property]

RECURSIVE Ordered(_, _, _, _)
Ordered(store, property, descending, keys) ==
  IF keys = {} THEN <<>>
  ELSE LET first == CHOOSE a \in keys :
                      \A b \in keys \ {a} : Before(store, property, descending, a, b)
       IN  <<first>> \o Ordered(store, property, descending, keys \ {first})

\* query.fetch(offset=, limit=)
Fetch(rows, offset, limit) ==
  SubSeq(rows, offset + 1, Min(Len(rows), offset + limit))

\* The value of `i` when line 320 reads it: the loop of lines 316-318 leaves
\* the first i in 2..limit whose row differs from the last row, or limit;
\* when the loop body never runs (limit < 2), i is still the last index of
\* the list comprehension of line 314.
TieScan(store, quotes, limit) ==
  LET n == Len(quotes)
      differs == {j \in 2..limit :
                    store[quotes[n + 1 - j]].submitted # store[quotes[n]].submitted}
  IN  IF limit < 2 THEN n - 1
      ELSE IF differs = {} THEN limit
      ELSE CHOOSE j \in differs : \A l \in differs : j <= l

getQuotesByTimestamp(store, property, start, offset, limit, descending, include_drafts, ancestor) ==
  LET keys == Matching(store, property, start, descending, include_drafts, ancestor)
      quotes == Fetch(Ordered(store, property, descending, keys), offset, limit)
  IN  IF Len(quotes) = limit
        THEN [quotes |-> quotes,
              start  |-> store[quotes[Len(quotes)]].submitted,
              offset |-> TieScan(store, quotes, limit) - 1]
        ELSE [quotes |-> quotes, start |-> start, offset |-> offset]

getRecentQuotes(store, reversed, start, offset, limit) ==
  getQuotesByTimestamp(store, "submitted", start, offset, limit,
                       ~reversed, FALSE, None)

\* Quote.getQuotesByBuildTime: the other arguments keep their defaults,
\* descending=False, include_drafts=True, ancestor=None.
getQuotesByBuildTime(store, start, offset, limit) ==
  getQuotesByTimestamp(store, "built", start, offset, limit, FALSE, TRUE, None)

\* Quote.getDraftQuotes with the default order '-submitted'
getDraftQuotes(store, account, offset, limit) ==
  Fetch(Ordered(store, "submitted", TRUE,
                {k \in DOMAIN store :
                   /\ store[k].owner = account
                   /\ store[k].draft = TRUE
                   /\ store[k].deleted = FALSE}),
        offset, limit)

(* ------------------------------------------------------- page specifier *)

\* A page specifier that keeps the size it is given.
PageSpecifierOfAnySize(mode, start_value, offset, size, reversed) ==
  [mode |-> mode, start_value |-> start_value, offset |-> offset,
   size |-> size, reversed |-> reversed]

\* PageSpecifier.__init__
PageSpecifier(mode, start_value, offset, size, reversed) ==
  [mode |-> mode, start_value |-> start_value, offset |-> offset,
   size |-> Min(MAX_PAGE_SIZE, size), reversed |-> reversed]

NoPage == [mode |-> "none"]

fetch_recent(store, page) ==
  LET r == getRecentQuotes(store, page.reversed, page.start_value,
                           page.offset, page.size)
  IN  [quote_list |-> r.quotes,
       next |-> PageSpecifier(page.mode, r.start, r.offset, page.size, page.reversed),
       prev |-> PageSpecifier(page.mode, page.start_value, 1, page.size, ~page.reversed)]

\* An export that does not ask for a full page.
maybeExportAnyPage(spec, quote_list, page_spec, require_full_page) ==
  IF spec.start_value # None /\ spec.offset >= 0 THEN spec ELSE NoPage

\* maybeExportPage of browseQuotes
maybeExportPage(spec, quote_list, page_spec, require_full_page) ==
  IF /\ spec.start_value # None
     /\ spec.offset >= 0
     /\ (~require_full_page \/ Len(quote_list) = page_spec.size)
    THEN spec
    ELSE NoPage

Range(s) == {s[i] : i \in 1..Len(s)}

\* browseQuotes for a decoded page specifier of mode 'recent'.
browseQuotes(page_spec) ==
  LET f == fetch_recent(db, page_spec)
  IN  /\ template' = [page      |-> page_spec,
                      quotes    |-> f.quote_list,
                      next_spec |-> f.next,
                      next_page |-> maybeExportPage(f.next, f.quote_list, page_spec, TRUE),
                      prev_page |-> maybeExportPage(f.prev, f.quote_list, page_spec, FALSE)]
      /\ seen' = seen \cup Range(f.quote_list)
      /\ dupes' = dupes \cup (seen \cap Range(f.quote_list))

NoTemplate ==
  [page |-> NoPage, quotes |-> <<>>, next_spec |-> NoPage,
   next_page |-> NoPage, prev_page |-> NoPage]

\* The first 'recent' page of a traversal.
BrowseFirst(size, reversed) ==
  /\ template.page = NoPage
  /\ browseQuotes(PageSpecifier("recent", None, 0, size, reversed))
  /\ UNCHANGED <<db, lifecycleVars, cursorVars, parserVars>>

\* The request that follows the exported next-page link.
BrowseNextPage ==
  /\ template.next_page # NoPage
  /\ browseQuotes(template.next_page)
  /\ UNCHANGED <<db, lifecycleVars, cursorVars, parserVars>>

(* -------------------------------------------------------- the cursor *)

\* The digits of int(x, base) and of the %x and %d conversions.
HexDigits == <<"0", "1", "2", "3", "4", "5", "6", "7", "8", "9",
               "a", "b", "c", "d", "e", "f">>
HexUpper == <<"0", "1", "2", "3", "4", "5", "6", "7", "8", "9",
              "A", "B", "C", "D", "E", "F">>

\* The digits of n >= 0 in base b
RECURSIVE ToBase(_, _)
ToBase(n, b) ==
  IF n < b THEN <<HexDigits[n + 1]>>
  ELSE ToBase(n \div b, b) \o <<HexDigits[(n % b) + 1]>>

\* '%0wx' % n and '%x' % n (w = 1) for n >= 0
PadHex(n, w) ==
  [i \in 1..(w - Len(ToBase(n, 16))) |-> "0"] \o ToBase(n, 16)

\* '%s' % n for an integer n
Str(n) == IF n < 0 THEN <<"-">> \o ToBase(0 - n, 10) ELSE ToBase(n, 10)

\* The value of one digit in base b, -1 if it is none
DigitOf(c, b) ==
  IF \E i \in 1..b : HexDigits[i] = c \/ HexUpper[i] = c
    THEN (CHOOSE i \in 1..b : HexDigits[i] = c \/ HexUpper[i] = c) - 1
    ELSE 0 - 1

RECURSIVE FromBase(_, _, _)
FromBase(s, b, acc) ==
  IF s = <<>> THEN acc ELSE FromBase(Tail(s), b, acc * b + DigitOf(Head(s), b))

IntError == [error |-> "ValueError", value |-> 0]

\* The digits of int(): at least one, each a digit of the base
IntDigits(s, b, sign) ==
  IF s = <<>> \/ \E i \in 1..Len(s) : DigitOf(s[i], b) < 0 THEN IntError
  ELSE [error |-> "none", value |-> sign * FromBase(s, b, 0)]

\* int() accepts the prefix 0x or 0X when the base is 16
IntPrefixed(s, b, sign) ==
  IF b = 16 /\ Len(s) >= 2 /\ s[1] = "0" /\ s[2] \in {"x", "X"}
    THEN IntDigits(SubSeq(s, 3, Len(s)), b, sign)
    ELSE IntDigits(s, b, sign)

\* int() accepts one sign
IntSigned(s, b) ==
  IF s # <<>> /\ s[1] = "-" THEN IntPrefixed(Tail(s), b, 0 - 1)
  ELSE IF s # <<>> /\ s[1] = "+" THEN IntPrefixed(Tail(s), b, 1)
  ELSE IntPrefixed(s, b, 1)

\* int(s, base): surrounding whitespace is ignored
int(s, b) == IntSigned(strip(s), b)

\* The days of a month of the proleptic Gregorian calendar
DaysIn(year, month) ==
  IF month = 2
    THEN IF year % 4 = 0 /\ (year % 100 # 0 \/ year % 400 = 0) THEN 29 ELSE 28
  ELSE IF month \in {4, 6, 9, 11} THEN 30 ELSE 31

\* A datetime is the tuple of its fields <<year, month, day, hour, minute,
\* second, microsecond>>; None where a datetime is expected is the empty tuple.
NoDate == <<>>

\* datetime.datetime(year, month, day, hour, minute, second, microsecond)
datetime(f) ==
  IF /\ f[1] \in 1..9999 /\ f[2] \in 1..12
     /\ f[3] >= 1 /\ f[3] <= DaysIn(f[1], f[2])
     /\ f[4] \in 0..23 /\ f[5] \in 0..59 /\ f[6] \in 0..59
     /\ f[7] >= 0 /\ f[7] <= 999999
    THEN [error |-> "none", value |-> f]
    ELSE IntError

\* PageSpecifier.encodeDateTime
encodeDateTime(value) ==
  PadHex(value[1], 3) \o PadHex(value[2], 1) \o PadHex(value[3], 2)
  \o PadHex(value[4], 2) \o PadHex(value[5], 2) \o PadHex(value[6], 2)
  \o PadHex(value[7], 5)

\* The fields of decodeDateTime once each int(..., 16) has run
decodeFields(ints) ==
  IF \E i \in 1..Len(ints) : ints[i].error # "none" THEN IntError
  ELSE datetime([i \in 1..Len(ints) |-> ints[i].value])

\* PageSpecifier.decodeDateTime
decodeDateTime(value) ==
  IF Len(value) # 17 THEN IntError
  ELSE decodeFields(<<int(SubSeq(value, 1, 3), 16), int(SubSeq(value, 4, 4), 16),
                      int(SubSeq(value, 5, 6), 16), int(SubSeq(value, 7, 8), 16),
                      int(SubSeq(value, 9, 10), 16), int(SubSeq(value, 11, 12), 16),
                      int(SubSeq(value, 13, 17), 16)>>)

\* str.split(sep) for a separator of one character
RECURSIVE split(_, _)
split(s, sep) ==
  IF \A i \in 1..Len(s) : s[i] # sep THEN <<s>>
  ELSE <<SubSeq(s, 1, (CHOOSE i \in 1..Len(s) :
                         s[i] = sep /\ \A j \in 1..(i - 1) : s[j] # sep) - 1)>>
       \o split(SubSeq(s, (CHOOSE i \in 1..Len(s) :
                             s[i] = sep /\ \A j \in 1..(i - 1) : s[j] # sep) + 1,
                       Len(s)), sep)

\* param.startswith(key + '=')
startswith(param, key) == Len(param) >= 2 /\ param[1] = key /\ param[2] = "="

\* param[2:]
After(param) == SubSeq(param, 3, Len(param))

\* PageSpecifier.encode
encode(self) ==
  <<"m", "=">> \o self.mode
  \o (IF self.start_value # NoDate
        THEN <<";", "d", "=">> \o encodeDateTime(self.start_value) ELSE <<>>)
  \o (IF self.offset # 0 THEN <<";", "o", "=">> \o Str(self.offset) ELSE <<>>)
  \o (IF self.size # DEFAULT_SIZE THEN <<";", "s", "=">> \o Str(self.size) ELSE <<>>)
  \o (IF self.reversed THEN <<";", "r", "=", "1">> ELSE <<>>)

\* The kwargs of decode before any param is read: no mode, and for the
\* others the defaults of PageSpecifier.__init__.
NoKwargs ==
  [has_mode |-> FALSE, mode |-> <<>>, start_value |-> NoDate, offset |-> 0,
   size |-> DEFAULT_SIZE, reversed |-> FALSE]

\* kwargs[name] = the value a conversion returned, or the error it raised
SetKwarg(kwargs, name, r) ==
  IF r.error # "none" THEN [error |-> r.error, kwargs |-> kwargs]
  ELSE [error |-> "none", kwargs |-> [kwargs EXCEPT ![name] = r.value]]

\* bool(...) of what int() returned
Truth(r) == [error |-> r.error, value |-> r.value # 0]

\* The body of decode's loop for one param (lines 51-60)
decodeParam(kwargs, param) ==
  IF startswith(param, "m")
    THEN [error |-> "none",
          kwargs |-> [kwargs EXCEPT !.has_mode = TRUE, !.mode = After(param)]]
  ELSE IF startswith(param, "d")
    THEN SetKwarg(kwargs, "start_value", decodeDateTime(After(param)))
  ELSE IF startswith(param, "o")
    THEN SetKwarg(kwargs, "offset", int(After(param), 10))
  ELSE IF startswith(param, "s")
    THEN SetKwarg(kwargs, "size", int(After(param), 10))
  ELSE IF startswith(param, "r")
    THEN SetKwarg(kwargs, "reversed", Truth(int(After(param), 10)))
  ELSE [error |-> "none", kwargs |-> kwargs]

\* PageSpecifier(**kwargs): mode is a required argument
construct(kwargs) ==
  IF ~kwargs.has_mode THEN [error |-> "TypeError", page |-> NoPage]
  ELSE [error |-> "none",
        page |-> PageSpecifier(kwargs.mode, kwargs.start_value, kwargs.offset,
                               kwargs.size, kwargs.reversed)]

\* The loop of decode over the params left, r the outcome so far
RECURSIVE decodeParams(_, _)
decodeParams(params, r) ==
  IF r.error # "none" THEN [error |-> r.error, page |-> NoPage]
  ELSE IF params = <<>> THEN construct(r.kwargs)
  ELSE decodeParams(Tail(params), decodeParam(r.kwargs, Head(params)))

\* PageSpecifier.decode
decode(encoded) ==
  decodeParams(split(encoded, ";"), [error |-> "none", kwargs |-> NoKwargs])

(* ------------------------------------------------ the cursor's requests *)

\* kwargs[name] of copy: the override, or else the attribute of self
copyAttribute(self, overrides, name) ==
  IF name \in DOMAIN overrides THEN overrides[name] ELSE self[name]

\* PageSpecifier.copy; overrides is the record of the keywords given
copy(self, overrides) ==
  PageSpecifier(copyAttribute(self, overrides, "mode"),
                copyAttribute(self, overrides, "start_value"),
                copyAttribute(self, overrides, "offset"),
                copyAttribute(self, overrides, "size"),
                copyAttribute(self, overrides, "reversed"))

\* Nothing decoded yet.
NoDecoded == [error |-> "none", page |-> NoPage]

\* No page specifier made and no text received.
NoCursor == [op |-> "none", page |-> NoPage, encoded |-> <<>>, decoded |-> NoDecoded]

\* No dialog parsed yet.
NoneYielded ==
  [op |-> "none", dialog |-> <<>>, preserve_formatting |-> FALSE,
   result |-> [error |-> "none", lines |-> <<>>]]

\* The modes a page specifier is made with: the two the service fetches, and
\* one that holds the separator of the encoding.
Modes ==
  {<<"r", "e", "c", "e", "n", "t">>,
   <<"d", "r", "a", "f", "t">>,
   <<"a", ";", "o", "=", "1">>}

\* The start values: none, the date of the source's example, the first year
\* of four hex digits, and the last microsecond of year 1.
StartValues ==
  {NoDate} \cup {d \in {<<2008, 4, 19, 14, 2, 56, 123456>>,
                        <<4096, 1, 1, 0, 0, 0, 0>>,
                        <<1, 12, 31, 23, 59, 59, 999999>>} :
                   datetime(d).error = "none"}

Offsets == {0 - 3, 0, 2}

\* Sizes below, at and above the default and the maximum.
Sizes == {0 - 2, DEFAULT_SIZE, 5, MAX_PAGE_SIZE, MAX_PAGE_SIZE + 1, 99}

\* The keywords copy is called with (fetch_recent, fetch_draft), and a size.
Overrides ==
  {[start_value |-> d, offset |-> o] : d \in StartValues, o \in Offsets}
  \cup {[reversed |-> r, offset |-> 1] : r \in BOOLEAN}
  \cup {[offset |-> o] : o \in Offsets}
  \cup {[size |-> s] : s \in Sizes}

\* The texts a client sends as the page parameter.
ClientStrings ==
  {<<>>,
   <<"o", "=", "1">>,
   <<"m", "=", "r", "e", "c", "e", "n", "t">>,
   <<"m", "=", "r", "e", "c", "e", "n", "t", ";", "x", "=", "1">>,
   <<"m", "=", "r", "e", "c", "e", "n", "t", ";", "r", "=", "1">>,
   <<"m", "=", "d", "r", "a", "f", "t", ";", "o", "=", "3", ";", "s", "=",
     "9", "9">>,
   <<"m", "=", "r", "e", "c", "e", "n", "t", ";", "d", "=", "7", "d", "8",
     "4", "1", "3", "0", "e", "0", "2", "3", "8", "1", "e", "2", "4", "0">>,
   <<"m", "=", "r", "e", "c", "e", "n", "t", ";", "d", "=", "7", "d", "8">>,
   <<"m", "=", "r", "e", "c", "e", "n", "t", ";", "d", "=", "7", "d", "8",
     "4", "1", "3", "0", "e", "0", "2", "3", "8", "z", "z", "z", "z", "z">>,
   <<"m", "=", "r", "e", "c", "e", "n", "t", ";", "d", "=", "0", "x", "7",
     "4", "1", "3", "0", "e", "0", "2", "3", "8", "1", "e", "2", "4", "0">>,
   <<"m", "=", "r", "e", "c", "e", "n", "t", ";", "d", "=", "7", "d", "8",
     "4", "1", "3", "0", "e", "0", "2", "3", "8", "+", "1", "e", "2", "4">>,
   <<"m", "=", "r", "e", "c", "e", "n", "t", ";", "o", "=", "a", "b", "c">>,
   <<"m", "=", "r", "e", "c", "e", "n", "t", ";", "o", "=", " ", "7", " ">>,
   <<"m", "=", "r", "e", "c", "e", "n", "t", ";", "s", "=", "x">>,
   <<"m", "=", "r", "e", "c", "e", "n", "t", ";", "s", "=", "+", "5">>}

\* PageSpecifier(mode, start_value, offset, size, reversed)
Construct(mode, start_value, offset, size, reversed) ==
  /\ cursor' = [NoCursor EXCEPT
                  !.op = "construct",
                  !.page = PageSpecifier(mode, start_value, offset, size, reversed)]
  /\ UNCHANGED <<db, lifecycleVars, browseVars, parserVars>>

\* page.copy(**overrides)
Copy(overrides) ==
  /\ cursor.op \in {"construct", "copy"}
  /\ cursor' = [NoCursor EXCEPT !.op = "copy", !.page = copy(cursor.page, overrides)]
  /\ UNCHANGED <<db, lifecycleVars, browseVars, parserVars>>

\* page.encode(), the text of a link
Encode ==
  /\ cursor.op \in {"construct", "copy"}
  /\ cursor' = [cursor EXCEPT !.op = "encode", !.encoded = encode(cursor.page)]
  /\ UNCHANGED <<db, lifecycleVars, browseVars, parserVars>>

\* self.request.get('page') holds a text the service did not encode
Receive(encoded) ==
  /\ cursor' = [NoCursor EXCEPT !.op = "receive", !.encoded = encoded]
  /\ UNCHANGED <<db, lifecycleVars, browseVars, parserVars>>

\* PageSpecifier.decode of the text of the link or of the client
Decode ==
  /\ cursor.op \in {"encode", "receive"}
  /\ cursor' = [cursor EXCEPT !.op = "decode", !.decoded = decode(cursor.encoded)]
  /\ UNCHANGED <<db, lifecycleVars, browseVars, parserVars>>

InitPage ==
  /\ db = <<>>
  /\ mem = <<>>
  /\ accounts = <<>>
  /\ events = [published |-> 0, deleted |-> 0, updated |-> 0]
  /\ now = 1
  /\ nextKey = 1
  /\ steps = 0
  /\ failures = 0
  /\ result = [op |-> "none", key |-> None, modified |-> None,
               error |-> "none", returned |-> None]
  /\ edited = <<>>
  /\ template = NoTemplate
  /\ seen = {}
  /\ dupes = {}
  /\ cursor = NoCursor
  /\ yielded = NoneYielded

NextPage ==
  \/ \E mode \in Modes, start_value \in StartValues, offset \in Offsets,
        size \in Sizes, reversed \in BOOLEAN :
       Construct(mode, start_value, offset, size, reversed)
  \/ \E overrides \in Overrides : Copy(overrides)
  \/ Encode
  \/ \E encoded \in ClientStrings : Receive(encoded)
  \/ Decode

SpecPage == InitPage /\ [][NextPage]_vars

(* ------------------------------------------------- the parser's dialogs *)

\* The characters of a dialog: two letters, the space and the newline.
DialogChars == {"a", "b", " ", "\n"}

\* The dialog texts of at most MaxDialogLen characters.
DialogTexts == UNION {[1..n -> DialogChars] : n \in 0..MaxDialogLen}

\* list(LineFormatterRegistry.parseDialog(dialog, preserve_formatting)), the
\* one call of a run
ParseDialog(dialog, preserve_formatting) ==
  /\ yielded.op = "none"
  /\ yielded' = [op |-> "parseDialog", dialog |-> dialog,
                preserve_formatting |-> preserve_formatting,
                result |-> parseDialog(dialog, preserve_formatting)]
  /\ UNCHANGED <<db, lifecycleVars, browseVars, cursorVars>>

InitDialog ==
  /\ db = <<>>
  /\ mem = <<>>
  /\ accounts = <<>>
  /\ events = [published |-> 0, deleted |-> 0, updated |-> 0]
  /\ now = 1
  /\ nextKey = 1
  /\ steps = 0
  /\ failures = 0
  /\ result = [op |-> "none", key |-> None, modified |-> None,
               error |-> "none", returned |-> None]
  /\ edited = <<>>
  /\ template = NoTemplate
  /\ seen = {}
  /\ dupes = {}
  /\ cursor = NoCursor
  /\ yielded = NoneYielded

NextDialog ==
  \E dialog \in DialogTexts, preserve_formatting \in BOOLEAN :
    ParseDialog(dialog, preserve_formatting)

SpecDialog == InitDialog /\ [][NextDialog]_vars

(* --------------------------------------------------- the formatters' lines *)

\* Lines of the source's and the specification's examples and a nick with
\* an underscore.
LineBob == <<"<", "b", "o", "b", ">", " ", "h", "e", "l", "l", "o">>
LineDigits == <<"<", "1", "2", "3", ">", " ", "h", "i">>
LineTimed ==
  <<"[", "1", ":", "0", "2", "]", " ", "<", "A", "l", ">", " ", "y", "o">>
LineUnderscore == <<"<", "f", "o", "o", "_", "b", "a", "r", ">", " ", "x">>

\* The lines given to the formatters: every line of at most MaxLineLen
\* characters (the brackets of a nick, a digit, the colon, a capital, the
\* underscore and the space), the examples, a nick before a time, and a
\* time datetime.time() refuses.
LineTexts ==
  UNION {[1..n -> {"<", ">", "1", ":", "A", "_", " "}] : n \in 0..MaxLineLen}
  \cup {LineBob, LineDigits, LineTimed, LineUnderscore,
        <<"a", ":", " ", "1", ":", "0", "2", " ", "x">>,
        <<"[", "2", "5", ":", "0", "0", "]", " ", "h", "i">>}

\* formatter.match(line) for one class of the registry
Match(formatter, line) ==
  /\ yielded.op = "none"
  /\ yielded' = [op |-> "match", formatter |-> formatter, dialog |-> line,
                 preserve_formatting |-> FALSE,
                 result |-> match(formatter, line)]
  /\ UNCHANGED <<db, lifecycleVars, browseVars, cursorVars>>

\* Line(line, preserve_formatting)
MakeLine(line, preserve_formatting) ==
  /\ yielded.op = "none"
  /\ yielded' = [op |-> "Line", dialog |-> line,
                 preserve_formatting |-> preserve_formatting,
                 result |-> Line(line, preserve_formatting)]
  /\ UNCHANGED <<db, lifecycleVars, browseVars, cursorVars>>

InitLine ==
  /\ db = <<>>
  /\ mem = <<>>
  /\ accounts = <<>>
  /\ events = [published |-> 0, deleted |-> 0, updated |-> 0]
  /\ now = 1
  /\ nextKey = 1
  /\ steps = 0
  /\ failures = 0
  /\ result = [op |-> "none", key |-> None, modified |-> None,
               error |-> "none", returned |-> None]
  /\ edited = <<>>
  /\ template = NoTemplate
  /\ seen = {}
  /\ dupes = {}
  /\ cursor = NoCursor
  /\ yielded = NoneYielded

NextLine ==
  \/ \E formatter \in Range(registry), line \in LineTexts : Match(formatter, line)
  \/ \E line \in LineTexts, preserve_formatting \in BOOLEAN :
       MakeLine(line, preserve_formatting)

SpecLine == InitLine /\ [][NextLine]_vars

(* ------------------------------------------------- the listing's stores *)

BrowseKeys == 1..BrowseQuotes

\* A stored quote of a listing: only the fields the query reads vary.
ListedQuote(stamp, state) ==
  [owner |-> 1, draft |-> (state = "draft"), deleted |-> (state = "deleted"),
   clone_of |-> None, dialog_source |-> <<>>, preserve_formatting |-> FALSE,
   formatting |-> <<>>, labels |-> {}, submitted |-> stamp,
   modified |-> IF state = "draft" THEN None ELSE stamp, built |-> stamp]

BrowseStores ==
  {[k \in BrowseKeys |-> ListedQuote(stamps[k], states[k])] :
     stamps \in [BrowseKeys -> 1..MaxStamp],
     states \in {s \in [BrowseKeys -> {"published", "draft", "deleted"}] :
                   Cardinality({k \in BrowseKeys : s[k] # "published"}) <= MaxHidden}}

InitBrowse ==
  /\ db \in BrowseStores
  /\ mem = <<>>
  /\ accounts = <<>>
  /\ events = [published |-> 0, deleted |-> 0, updated |-> 0]
  /\ now = MaxStamp
  /\ nextKey = BrowseQuotes + 1
  /\ steps = 0
  /\ failures = 0
  /\ result = [op |-> "none", key |-> None, modified |-> None,
               error |-> "none", returned |-> None]
  /\ edited = <<>>
  /\ template = NoTemplate
  /\ seen = {}
  /\ dupes = {}
  /\ cursor = NoCursor
  /\ yielded = NoneYielded

NextBrowse ==
  \/ \E size \in 1..MaxSize, reversed \in BOOLEAN : BrowseFirst(size, reversed)
  \/ BrowseNextPage

SpecBrowse == InitBrowse /\ [][NextBrowse]_vars

(* ------------------------------------------------------------- the quote *)

\* datetime.datetime.fromtimestamp(0), the default of Quote.built
EPOCH == 0

NickLabel(nick) == <<"n", "i", "c", "k", ":">> \o nick

\* Quote.addLabel; the label list is read only for membership, so it is a set.
addLabel(labels, label) == labels \cup {lower(strip(label))}

\* The normalized nicks of the parsed lines (the set `nicks` of rebuild).
Nicks(lines) ==
  {lines[i].formatting[j].params.normalized_nick :
     <<i, j>> \in {x \in (1..Len(lines)) \X (1..2) :
                     /\ x[2] <= Len(lines[x[1]].formatting)
                     /\ "normalized_nick" \in
                          DOMAIN lines[x[1]].formatting[x[2]].params}}

RECURSIVE addLabels(_, _)
addLabels(labels, nicks) ==
  IF nicks = {} THEN labels
  ELSE LET nick == CHOOSE n \in nicks : TRUE
       IN  addLabels(addLabel(labels, NickLabel(nick)), nicks \ {nick})

\* The dialog texts that are submitted.
DialogBob == <<"<", "b", "o", "b", ">", " ", "h", "i">>
DialogAl == <<"[", "1", ":", "0", "2", "]", " ", "<", "A", "l", ">", " ", "y", "o",
              "\n", " ", "o", "k">>
Dialogs == {DialogBob, DialogAl, LineUnderscore}

\* parseDialog of each submitted text, computed once.
ParsedDialogs == [d \in Dialogs, p \in BOOLEAN |-> parseDialog(d, p)]

\* A rebuild that adds the parsed lines to the lines it finds.
rebuildAppending(self, clock) ==
  LET parsed == ParsedDialogs[self.dialog_source, self.preserve_formatting]
  IN  IF parsed.error # "none" THEN [error |-> parsed.error, quote |-> self]
      ELSE [error |-> "none",
            quote |-> [self EXCEPT !.formatting = @ \o parsed.lines,
                                   !.labels = addLabels(@, Nicks(parsed.lines)),
                                   !.built = clock]]

\* Quote.rebuild up to its put(): the instance with formatting, labels and
\* built replaced, or the error parsing raises.
rebuild(self, clock) ==
  LET parsed == ParsedDialogs[self.dialog_source, self.preserve_formatting]
  IN  IF parsed.error # "none" THEN [error |-> parsed.error, quote |-> self]
      ELSE [error |-> "none",
            quote |-> [self EXCEPT !.formatting = parsed.lines,
                                   !.labels = addLabels(@, Nicks(parsed.lines)),
                                   !.built = clock]]

\* The instance createDraft constructs.
NewDraft(account, source, submitted, clock) ==
  [owner |-> account, draft |-> TRUE, deleted |-> FALSE, clone_of |-> None,
   dialog_source |-> source, preserve_formatting |-> FALSE,
   formatting |-> <<>>, labels |-> {},
   submitted |-> IF submitted # None THEN submitted ELSE clock,
   modified |-> None, built |-> EPOCH]

\* Quote.clone(): a new instance with this one's parent and properties.
clone(self) == self

\* Quote.clone(target): every property of this instance set on target,
\* which keeps its own key and parent.
cloneTo(self, target) == [self EXCEPT !.owner = target.owner]

(* ---------------------------------------------------------- the datastore *)

\* The datastore, the live instances and the event log as one value.
Store == [db |-> db, mem |-> mem, accounts |-> accounts, events |-> events,
          error |-> "none", returned |-> None]

With(f, k, v) == [x \in DOMAIN f \cup {k} |-> IF x = k THEN v ELSE f[x]]
Without(f, k) == [x \in DOMAIN f \ {k} |-> f[x]]

\* Model.put() of the instance under key k
put(S, k) == [S EXCEPT !.db = With(S.db, k, S.mem[k])]

\* Model.delete(): the entity is gone and its instance is dropped
delete(S, k) == [S EXCEPT !.db = Without(S.db, k), !.mem = Without(S.mem, k)]

Raise(S, error) == [S EXCEPT !.error = error]

\* system.record(actor, verb, subject)
record(S, verb) == [S EXCEPT !.events[verb] = @ + 1]

(* ---------------------------------------------------------- the lifecycle *)

\* The stamp of lines 388: modified or datetime.datetime.now()
Stamp(modified, clock) == IF modified # None THEN modified ELSE clock

\* The function `transaction` of Quote.publish, run on the instance and on
\* the account read inside it.
publishQuote(self, modified, clock) ==
  [self EXCEPT !.draft = FALSE, !.modified = Stamp(modified, clock)]

\* A publish that forgets the draft counter.
publishKeepsDraftCount(account) == [account EXCEPT !.quote_count = @ + 1]

publishAccount(account) ==
  [account EXCEPT !.quote_count = @ + 1, !.draft_count = @ - 1]

\* A publish without the guard of lines 381-382.
publishNeverRejects(self) == FALSE

\* Whether Quote.publish rejects the instance (lines 381-382).
publishRejects(self) == ~self.draft

\* Quote.publish. `commit` is the outcome of db.run_in_transaction: the
\* function has run on the instance either way, its puts reach the
\* datastore only if the transaction commits.
publish(S, k, modified, clock, commit) ==
  LET self == S.mem[k]
      done == publishQuote(self, modified, clock)
      ran  == [S EXCEPT !.mem[k] = done]
  IN  IF publishRejects(self) THEN Raise(S, "InvalidQuoteStateException")
      ELSE IF self.clone_of # None THEN Raise(S, "TypeError")
      ELSE IF ~commit THEN Raise(ran, "TransactionFailedError")
      ELSE record([put(ran, k) EXCEPT
                     !.accounts[self.owner] = publishAccount(@),
                     !.returned = k],
                  "published")

\* Quote.createDraft under the key the datastore assigns at the first put.
createDraft(S, k, account, source, submitted, clock, commit) ==
  LET built == rebuild(NewDraft(account, source, submitted, clock), clock)
      stored == [S EXCEPT !.db = With(S.db, k, built.quote)]
  IN  IF built.error # "none" THEN Raise(S, built.error)
      ELSE IF ~commit THEN Raise(stored, "TransactionFailedError")
      ELSE [stored EXCEPT !.mem = With(S.mem, k, built.quote),
                          !.accounts[account].draft_count = @ + 1,
                          !.returned = k]

\* An update without the guard of lines 404-405.
updateNeverRejects(self) == FALSE

\* Whether Quote.update rejects the instance (lines 404-405).
updateRejects(self) == ~self.draft

\* Quote.update
update(S, k, dialog, preserve_formatting, modified, do_publish, clock, commit) ==
  LET self == S.mem[k]
      set == [self EXCEPT
                !.dialog_source = IF dialog # <<>> THEN dialog ELSE @,
                !.preserve_formatting =
                   IF preserve_formatting # "None"
                     THEN preserve_formatting = "True" ELSE @]
      built == rebuild(set, clock)
      saved == put([S EXCEPT !.mem[k] = built.quote], k)
  IN  IF updateRejects(self) THEN Raise(S, "InvalidQuoteStateException")
      ELSE IF built.error # "none"
        THEN Raise([S EXCEPT !.mem[k] = set], built.error)
      ELSE IF do_publish THEN publish(saved, k, modified, clock, commit)
      ELSE record(saved, "updated")

\* An edit without the owner test of lines 357-358.
editAllowsAnyone(self, account) == FALSE

\* Whether Quote.edit refuses the account (lines 357-358).
editForbids(self, account) == account # self.owner

\* Quote.edit under the key the datastore assigns to the clone
edit(S, k, account, d) ==
  LET self == S.mem[k]
      draft == [clone(self) EXCEPT !.draft = TRUE]
  IN  IF self.draft THEN Raise(S, "InvalidQuoteStateException")
      ELSE IF editForbids(self, account) THEN Raise(S, "NoPermissionException")
      ELSE IF self.clone_of # None THEN [S EXCEPT !.returned = self.clone_of]
      ELSE [S EXCEPT !.mem = With(With(S.mem, d, draft), k,
                                  [self EXCEPT !.clone_of = d]),
                     !.db = With(S.db, d, draft),
                     !.returned = d]

\* Quote.unpublish
unpublish(S, k) ==
  record(put([S EXCEPT !.mem[k].deleted = TRUE], k), "deleted")

\* Quote.republish
republish(S, k, modified, clock, commit) ==
  LET self == S.mem[k]
      d == self.clone_of
      copied == [cloneTo(S.mem[d], self) EXCEPT !.clone_of = None]
      published == publish([delete(S, d) EXCEPT !.mem[k] = copied],
                           k, modified, clock, commit)
  IN  IF d = None THEN Raise(S, "AttributeError")
      ELSE IF d \notin DOMAIN S.mem THEN Raise(S, "Error")
      ELSE IF published.error # "none" THEN published
      ELSE record(published, "updated")

\* Quote.getQuoteByKey: a fresh instance of the stored entity
getQuoteByKey(S, account, k) ==
  IF k \notin DOMAIN S.db THEN Raise(S, "InvalidKeyException")
  ELSE IF S.db[k].deleted THEN Raise(S, "InvalidKeyException")
  ELSE IF S.db[k].draft /\ account # S.db[k].owner
    THEN Raise(S, "NoPermissionException")
  ELSE [S EXCEPT !.mem = With(S.mem, k, S.db[k]), !.returned = k]

(* ------------------------------------------------------------ the actions *)

\* Two accounts: each can own quotes and is a stranger to the other's.
Accounts == {1, 2}

\* The state an operation leaves, and what it returned or raised.
Finish(S, op, k, modified) ==
  /\ steps' = steps + 1
  /\ db' = S.db
  /\ mem' = S.mem
  /\ accounts' = S.accounts
  /\ events' = S.events
  /\ result' = [op |-> op, key |-> k, modified |-> modified,
                 error |-> S.error, returned |-> S.returned]
  /\ edited' = IF op = "edit" /\ S.error = "none"
                 THEN With(edited, k, S.returned)
               ELSE IF op = "republish" THEN Without(edited, k)
               ELSE edited
  /\ failures' = IF S.error = "TransactionFailedError" THEN failures + 1 ELSE failures
  /\ UNCHANGED <<now, browseVars, cursorVars, parserVars>>

CreateDraft(account, source, commit) ==
  /\ steps < MaxSteps
  /\ nextKey <= MaxKeys
  /\ nextKey' = nextKey + 1
  /\ Finish(createDraft(Store, nextKey, account, source, None, now, commit),
            "createDraft", nextKey, None)

Update(k, dialog, preserve_formatting, modified, do_publish, commit) ==
  /\ steps < MaxSteps
  /\ k \in DOMAIN mem
  /\ UNCHANGED nextKey
  /\ Finish(update(Store, k, dialog, preserve_formatting, modified, do_publish,
                   now, commit),
            "update", k, modified)

Publish(k, modified, commit) ==
  /\ steps < MaxSteps
  /\ k \in DOMAIN mem
  /\ UNCHANGED nextKey
  /\ Finish(publish(Store, k, modified, now, commit), "publish", k, modified)

Edit(k, account) ==
  /\ steps < MaxSteps
  /\ k \in DOMAIN mem
  /\ LET S == edit(Store, k, account, nextKey)
     IN  /\ nextKey \in DOMAIN S.db => nextKey <= MaxKeys
         /\ nextKey' = IF nextKey \in DOMAIN S.db THEN nextKey + 1 ELSE nextKey
         /\ Finish(S, "edit", k, None)

Unpublish(k) ==
  /\ steps < MaxSteps
  /\ k \in DOMAIN mem
  /\ UNCHANGED nextKey
  /\ Finish(unpublish(Store, k), "unpublish", k, None)

Republish(k, modified, commit) ==
  /\ steps < MaxSteps
  /\ k \in DOMAIN mem
  /\ UNCHANGED nextKey
  /\ Finish(republish(Store, k, modified, now, commit), "republish", k, modified)

GetQuoteByKey(account, k) ==
  /\ steps < MaxSteps
  /\ k \in DOMAIN db
  /\ UNCHANGED nextKey
  /\ Finish(getQuoteByKey(Store, account, k), "getQuoteByKey", k, None)

\* Time passes between two readings of datetime.datetime.now().
Tick ==
  /\ now < MaxTime
  /\ now' = now + 1
  /\ steps < MaxSteps
  /\ steps' = steps + 1
  /\ UNCHANGED <<db, mem, accounts, events, nextKey, failures, result, edited,
                 browseVars, cursorVars, parserVars>>

Init ==
  /\ db = <<>>
  /\ mem = <<>>
  /\ accounts = [a \in Accounts |-> [quote_count |-> 0, draft_count |-> 0]]
  /\ events = [published |-> 0, deleted |-> 0, updated |-> 0]
  /\ now = 1
  /\ nextKey = 1
  /\ steps = 0
  /\ failures = 0
  /\ result = [op |-> "none", key |-> None, modified |-> None,
               error |-> "none", returned |-> None]
  /\ edited = <<>>
  /\ template = NoTemplate
  /\ seen = {}
  /\ dupes = {}
  /\ cursor = NoCursor
  /\ yielded = NoneYielded

\* The arguments the operations are called with.
ModifiedArgs == {None, MaxTime + 1}
SourceArgs == {DialogBob}
DialogArgs == {<<>>, DialogAl}
PreserveArgs == {"None"}
\* The accounts are interchangeable: the first draft is account 1's.
Creators == IF db = <<>> THEN {1} ELSE Accounts
\* db.run_in_transaction commits, or fails while failures are left.
Outcomes == {TRUE} \cup {c \in {FALSE} : failures < MaxFailures}

Next ==
  \/ \E a \in Creators, source \in SourceArgs, commit \in Outcomes :
       CreateDraft(a, source, commit)
  \/ \E k \in DOMAIN mem, dialog \in DialogArgs,
        preserve_formatting \in PreserveArgs,
        do_publish \in BOOLEAN, commit \in Outcomes :
       Update(k, dialog, preserve_formatting, None, do_publish, commit)
  \/ \E k \in DOMAIN mem, modified \in ModifiedArgs, commit \in Outcomes :
       Publish(k, modified, commit)
  \/ \E k \in DOMAIN mem, a \in Accounts : Edit(k, a)
  \/ \E k \in DOMAIN mem : Unpublish(k)
  \/ \E k \in DOMAIN mem, modified \in ModifiedArgs, commit \in Outcomes :
       Republish(k, modified, commit)
  \/ \E a \in Accounts, k \in DOMAIN db : GetQuoteByKey(a, k)
  \/ Tick

Spec == Init /\ [][Next]_vars

(* ------------------------------------------------------- the rebuilds *)

\* One draft of account 1 is created with any of the texts and then updated,
\* with or without a new text and with preserve_formatting not given, True
\* or False; each of the calls ends in rebuild().
NextRebuild ==
  \/ \E source \in Dialogs : db = <<>> /\ CreateDraft(1, source, TRUE)
  \/ \E k \in DOMAIN mem, dialog \in {<<>>} \cup Dialogs,
        preserve_formatting \in {"None", "True", "False"} :
       Update(k, dialog, preserve_formatting, None, FALSE, TRUE)
  \/ Tick

SpecRebuild == Init /\ [][NextRebuild]_vars

(* ------------------------------------------------- the build-time query *)

\* The stores of published quotes that were each submitted at one time and
\* rebuilt at another.
BuiltStores ==
  {[k \in 1..BuiltQuotes |->
      [owner |-> 1, draft |-> FALSE, deleted |-> FALSE,
       clone_of |-> None, dialog_source |-> <<>>, preserve_formatting |-> FALSE,
       formatting |-> <<>>, labels |-> {}, submitted |-> submitted[k],
       modified |-> submitted[k], built |-> built[k]]] :
     submitted \in [1..BuiltQuotes -> 1..MaxStamp],
     built \in [1..BuiltQuotes -> 1..MaxStamp]}

\* Quote.getQuotesByBuildTime(start=, offset=, limit=): the call and what it
\* returned.
QueryByBuildTime(start, offset, limit) ==
  /\ steps < MaxSteps
  /\ steps' = steps + 1
  /\ result' = [op |-> "getQuotesByBuildTime", key |-> None, modified |-> None,
                 error |-> "none", limit |-> limit,
                 returned |-> getQuotesByBuildTime(db, start, offset, limit)]
  /\ UNCHANGED <<db, mem, accounts, events, now, nextKey, failures, edited,
                 browseVars, cursorVars, parserVars>>

InitBuilt ==
  /\ db \in BuiltStores
  /\ mem = <<>>
  /\ accounts = <<>>
  /\ events = [published |-> 0, deleted |-> 0, updated |-> 0]
  /\ now = MaxStamp
  /\ nextKey = BuiltQuotes + 1
  /\ steps = 0
  /\ failures = 0
  /\ result = [op |-> "none", key |-> None, modified |-> None,
               error |-> "none", returned |-> None]
  /\ edited = <<>>
  /\ template = NoTemplate
  /\ seen = {}
  /\ dupes = {}
  /\ cursor = NoCursor
  /\ yielded = NoneYielded

\* The first call of a scan by build time, and the calls that continue with
\* the start and offset the last one returned; query.fetch takes no negative
\* offset.
NextBuilt ==
  \/ \E limit \in 1..MaxSize :
       result.op = "none" /\ QueryByBuildTime(None, 0, limit)
  \/ /\ result.op = "getQuotesByBuildTime"
     /\ Len(result.returned.quotes) = result.limit
     /\ result.returned.offset >= 0
     /\ QueryByBuildTime(result.returned.start, result.returned.offset,
                         result.limit)

SpecBuilt == InitBuilt /\ [][NextBuilt]_vars

(* ================================================================ claims *)

\* The rows at the end of a page whose submitted value is the last row's.
TrailingTies(store, quotes) ==
  LET n == Len(quotes)
  IN  Cardinality({j \in 1..n :
        \A l \in j..n : store[quotes[l]].submitted = store[quotes[n]].submitted})

\* The quotes a 'recent' listing is meant to show.
Listed(store) ==
  {k \in DOMAIN store : store[k].draft = FALSE /\ store[k].deleted = FALSE}

\* C1: whenever getQuotesByTimestamp returns exactly `limit` rows, the offset
\* it returns is the number of trailing rows of the page that share the last
\* row's sort value (the last row included), and the start it returns is the
\* last row's value.
C1_NextOffsetCountsTrailingTies ==
  (template.page # NoPage /\ Len(template.quotes) = template.page.size) =>
     /\ template.next_spec.offset = TrailingTies(db, template.quotes)
     /\ template.next_spec.start_value =
          db[template.quotes[Len(template.quotes)]].submitted

\* C2: following the next cursor from the first 'recent' page over a fixed
\* store returns no quote twice, and when no further page is offered every
\* published, non-deleted quote has been returned.
C2_EveryQuoteOnExactlyOnePage ==
  /\ dupes = {}
  /\ (template.page # NoPage /\ template.next_page = NoPage) => seen = Listed(db)

\* The keys the listings of a datastore return: getRecentQuotes in either
\* direction and every account's getDraftQuotes, each unpaged.
Returned(store) ==
  LET all == Cardinality(DOMAIN store) + 1
      Keys(quotes) == {quotes[i] : i \in 1..Len(quotes)}
  IN  UNION ({Keys(getRecentQuotes(store, r, None, 0, all).quotes) : r \in BOOLEAN}
             \cup {Keys(getDraftQuotes(store, a, 0, all)) : a \in Accounts})

\* C3: a quote whose stored entity is deleted is still deleted after any
\* operation that leaves the entity in the datastore, and no listing of the
\* datastore returns it.
C3_DeletedStaysDeleted ==
  [][\A k \in DOMAIN db :
       db[k].deleted =>
         /\ k \in DOMAIN db' => db'[k].deleted
         /\ k \notin Returned(db')]_vars

\* C4: publish() on an instance that is a draft without a clone_of link
\* either commits, and then the quote is stored with draft false and the
\* stamp in modified, the owner's draft_count is one lower and quote_count
\* one higher, nothing else of the accounts changes and one Published event
\* and no other is recorded; or its transaction fails, and then neither the
\* quote nor the counters nor the events have changed.
C4_PublishDraft ==
  [][\A k \in DOMAIN mem, modified \in ModifiedArgs, commit \in BOOLEAN :
       (/\ mem[k].draft /\ mem[k].clone_of = None
        /\ result'.op = "publish" /\ result'.key = k
        /\ Publish(k, modified, commit)) =>
          IF commit
            THEN /\ result'.error = "none"
                 /\ mem'[k].draft = FALSE
                 /\ mem'[k].modified = (IF modified # None THEN modified ELSE now)
                 /\ db' = [x \in DOMAIN db \cup {k} |-> IF x = k THEN mem'[k] ELSE db[x]]
                 /\ accounts'[mem[k].owner].draft_count =
                      accounts[mem[k].owner].draft_count - 1
                 /\ accounts'[mem[k].owner].quote_count =
                      accounts[mem[k].owner].quote_count + 1
                 /\ \A a \in Accounts \ {mem[k].owner} : accounts'[a] = accounts[a]
                 /\ events' = [events EXCEPT !.published = @ + 1]
            ELSE /\ result'.error = "TransactionFailedError"
                 /\ UNCHANGED <<db, accounts, events>>]_vars

\* C4 happens: a publish of a draft has committed.
C4_Published ==
  /\ result.op = "publish"
  /\ result.error = "none"
  /\ db[result.key].draft = FALSE
  /\ accounts[db[result.key].owner].quote_count > 0

\* C5: publish() on an instance that is not a draft raises
\* InvalidQuoteStateException, and the datastore, the instances, the
\* accounts' counters and the events are what they were.
C5_PublishPublishedRejected ==
  [][\A k \in DOMAIN mem, modified \in ModifiedArgs, commit \in BOOLEAN :
       (/\ ~mem[k].draft
        /\ result'.op = "publish" /\ result'.key = k
        /\ Publish(k, modified, commit)) =>
          /\ result'.error = "InvalidQuoteStateException"
          /\ UNCHANGED <<db, mem, accounts, events>>]_vars

\* C5 happens: a publish of a published quote has been rejected.
C5_Rejected ==
  /\ result.op = "publish"
  /\ result.error = "InvalidQuoteStateException"
  /\ db[result.key].draft = FALSE

\* C6: when the transaction of createDraft, publish or republish fails,
\* none of the operation's effects is in the datastore: the quotes and the
\* accounts' counters are what they were before the call.
C6_FailedGroupLeavesNothing ==
  [][(\/ \E a \in Accounts, source \in SourceArgs : CreateDraft(a, source, FALSE)
      \/ \E k \in DOMAIN mem, modified \in ModifiedArgs :
           Publish(k, modified, FALSE) \/ Republish(k, modified, FALSE))
     => (result'.error = "TransactionFailedError" => UNCHANGED <<db, accounts>>)]_vars

\* Whether the clone_of link of quote q is as it must be, the quotes of
\* the datastore being `store`.
CloneLinkOk(store, q) ==
  q.clone_of # None =>
    /\ q.draft = FALSE
    /\ q.clone_of \in DOMAIN store
    /\ store[q.clone_of].draft = TRUE
    /\ store[q.clone_of].owner = q.owner

\* C7: for every quote, stored or live, clone_of is set only if the quote is
\* published, and then it is the key of a stored quote that is a draft of the
\* same owner.
C7_CloneOfPointsToOwnDraft ==
  /\ \A k \in DOMAIN db : CloneLinkOk(db, db[k])
  /\ \A k \in DOMAIN mem : CloneLinkOk(db, mem[k])

\* C8: when the owner calls edit() on a published quote that edit() has
\* returned a draft for, and no republish of the quote came in between, the
\* call returns that same draft and stores no new quote.
C8_EditTwiceSameDraft ==
  [][\A k \in DOMAIN mem :
       (/\ Edit(k, mem[k].owner)
        /\ k \in DOMAIN edited
        /\ result'.error = "none") =>
          /\ result'.returned = edited[k]
          /\ DOMAIN db' = DOMAIN db]_vars

\* C9: a republish() that returns, called on a published, not deleted quote
\* whose clone_of is a stored draft, leaves the quote stored with the
\* draft's dialog_source, formatting and labels, with draft false, deleted
\* false, clone_of cleared and the stamp in modified; the draft is no longer
\* stored and one Updated event is recorded.
C9_RepublishCarriesDraft ==
  [][\A k \in DOMAIN mem, modified \in ModifiedArgs :
       (/\ Republish(k, modified, TRUE)
        /\ ~mem[k].draft /\ ~mem[k].deleted
        /\ mem[k].clone_of \in DOMAIN db \cap DOMAIN mem
        /\ db[mem[k].clone_of].draft
        /\ result'.error = "none") =>
          LET d == mem[k].clone_of
          IN  /\ db'[k].dialog_source = mem[d].dialog_source
              /\ db'[k].formatting = mem[d].formatting
              /\ db'[k].labels = mem[d].labels
              /\ db'[k].draft = FALSE
              /\ db'[k].deleted = FALSE
              /\ db'[k].clone_of = None
              /\ db'[k].modified = (IF modified # None THEN modified ELSE now)
              /\ d \notin DOMAIN db'
              /\ events'.updated = events.updated + 1]_vars

\* C10: unpublish() on an instance that is a draft or is already deleted
\* raises an error, stores nothing and records no Deleted event.
C10_UnpublishOnlyFromPublished ==
  [][\A k \in DOMAIN mem :
       (Unpublish(k) /\ (mem[k].draft \/ mem[k].deleted)) =>
          /\ result'.error # "none"
          /\ UNCHANGED <<db, events>>]_vars

\* C11: update() on an instance that is not a draft raises
\* InvalidQuoteStateException and nothing has changed: the instance keeps its
\* dialog_source, preserve_formatting, formatting, labels and built, the
\* datastore and the accounts' counters are what they were (nothing stored,
\* nothing published) and no event is recorded.
C11_UpdatePublishedRejected ==
  [][\A k \in DOMAIN mem, dialog \in DialogArgs, p \in PreserveArgs,
        do_publish \in BOOLEAN, commit \in BOOLEAN :
       (/\ ~mem[k].draft
        /\ result'.op = "update" /\ result'.key = k
        /\ Update(k, dialog, p, None, do_publish, commit)) =>
          /\ result'.error = "InvalidQuoteStateException"
          /\ UNCHANGED <<db, mem, accounts, events>>]_vars

\* C11 happens: an update of a published quote was rejected.
C11_Rejected ==
  /\ result.op = "update"
  /\ result.error = "InvalidQuoteStateException"
  /\ result.key \in DOMAIN db
  /\ db[result.key].draft = FALSE

\* C12: edit(account) on a published instance by an account that is not its
\* owner raises NoPermissionException, and edit() on a draft instance raises
\* InvalidQuoteStateException; either way no clone is stored, clone_of is
\* what it was and nothing else has changed.
C12_EditRejections ==
  [][\A k \in DOMAIN mem, a \in Accounts :
       (result'.op = "edit" /\ result'.key = k /\ Edit(k, a)) =>
          /\ (~mem[k].draft /\ a # mem[k].owner) =>
                /\ result'.error = "NoPermissionException"
                /\ UNCHANGED <<db, mem, accounts, events, nextKey>>
          /\ mem[k].draft =>
                /\ result'.error = "InvalidQuoteStateException"
                /\ UNCHANGED <<db, mem, accounts, events, nextKey>>]_vars

\* C12 happens: an edit of a published quote was refused for want of
\* permission.
C12_Refused ==
  /\ result.op = "edit"
  /\ result.error = "NoPermissionException"
  /\ db[result.key].draft = FALSE
  /\ mem[result.key].clone_of = None

\* C13: when a page query returned fewer rows than the page's size,
\* getQuotesByTimestamp returned the start and the offset it was given and
\* browseQuotes exported no next_page.
C13_ShortPageHasNoNext ==
  (template.page # NoPage /\ Len(template.quotes) < template.page.size) =>
     /\ template.next_spec.start_value = template.page.start_value
     /\ template.next_spec.offset = template.page.offset
     /\ template.next_page = NoPage

\* C13 happens: a page reached through a next cursor came back short.
C13_ShortPage ==
  /\ template.page # NoPage
  /\ template.page.start_value # None
  /\ template.quotes # <<>>
  /\ Len(template.quotes) < template.page.size

\* The attributes the round trip is to reproduce.
SamePage(x, y) ==
  /\ y.mode = x.mode
  /\ y.start_value = x.start_value
  /\ y.offset = x.offset
  /\ y.size = x.size
  /\ y.reversed = x.reversed

\* C14: for every valid page specifier x, decode(x.encode()) succeeds and has
\* the mode, start_value, offset, size and reversed of x.
C14_DecodeInvertsEncode ==
  (cursor.op = "decode" /\ cursor.page # NoPage)
    => /\ cursor.decoded.error = "none"
       /\ cursor.decoded.page # NoPage
       /\ SamePage(cursor.page, cursor.decoded.page)

\* C15: every page specifier made by the constructor, by copy or by decode
\* has a size of at most MAX_PAGE_SIZE.
C15_SizeAtMostMaximum ==
  /\ cursor.page # NoPage => cursor.page.size <= MAX_PAGE_SIZE
  /\ cursor.decoded.page # NoPage => cursor.decoded.page.size <= MAX_PAGE_SIZE

\* The text asks for a size of 99 in a segment "s=99".
AsksSize99(encoded) ==
  \E param \in Range(split(encoded, ";")) : param = <<"s", "=", "9", "9">>

\* C15 happens: a client's text asked for a size above the maximum, and the
\* page specifier decode made of it has the maximum.
C15_OversizeCapped ==
  /\ cursor.op = "decode"
  /\ AsksSize99(cursor.encoded)
  /\ cursor.decoded.error = "none"
  /\ cursor.decoded.page.size = MAX_PAGE_SIZE

\* The keys of the segments of a cursor.
CursorKeys == {"m", "d", "o", "s", "r"}

\* A well-formed cursor has an m= segment and no segment of another key.
WellFormed(encoded) ==
  /\ \E param \in Range(split(encoded, ";")) : startswith(param, "m")
  /\ \A param \in Range(split(encoded, ";")) :
       \E key \in CursorKeys : startswith(param, key)

\* C16: decode raises a format error for every text that is not a
\* well-formed cursor: one with no m= segment, one with a segment whose key
\* is not m, d, o, s or r.
C16_IllFormedRejected ==
  (cursor.op = "decode" /\ ~WellFormed(cursor.encoded))
    => (cursor.decoded.error # "none" /\ cursor.decoded.page = NoPage)

\* A decimal integer: an optional sign and one digit or more.
IsDecimal(s) ==
  LET digits == IF s # <<>> /\ s[1] \in {"-", "+"} THEN Tail(s) ELSE s
  IN  digits # <<>> /\ \A i \in 1..Len(digits) : IsDigit(digits[i])

\* A d= value of 17 hex digits.
IsPackedDate(s) ==
  Len(s) = 17 /\ \A i \in 1..Len(s) : DigitOf(s[i], 16) >= 0

\* The first key a segment starts with, as decode's chain reads it.
KeyOf(param) ==
  IF \E key \in CursorKeys : startswith(param, key) THEN param[1] ELSE "none"

\* A text with a d= value that is not 17 hex digits or an o= or s= value
\* that is not a decimal integer.
Malformed(encoded) ==
  \E param \in Range(split(encoded, ";")) :
    \/ KeyOf(param) = "d" /\ ~IsPackedDate(After(param))
    \/ KeyOf(param) \in {"o", "s"} /\ ~IsDecimal(After(param))

\* C17: decode raises ValueError and returns no page specifier when the d=
\* value is not 17 characters long or holds a character that is no hex
\* digit, or when the o= or s= value is not a decimal integer.
C17_MalformedValueRejected ==
  (cursor.op = "decode" /\ Malformed(cursor.encoded))
    => (cursor.decoded.error = "ValueError" /\ cursor.decoded.page = NoPage)

\* A step of Update on the instance k that raised nothing: the operation is
\* recorded, a step is counted and the clock is not the one that moved.
Updated(k) ==
  /\ result'.op = "update" /\ result'.key = k /\ result'.error = "none"
  /\ steps' = steps + 1
  /\ now' = now

\* C18: a rebuild that follows a rebuild, with dialog_source and
\* preserve_formatting as they were, leaves the parsed lines and the labels
\* as the first rebuild left them.  Every instance has been rebuilt when it
\* was created; an update() that leaves dialog_source and
\* preserve_formatting as they are is the rebuild that follows.
C18_RebuildTwiceSame ==
  [][\A k \in DOMAIN mem :
       (/\ mem[k].draft
        /\ Updated(k)
        /\ mem'[k].dialog_source = mem[k].dialog_source
        /\ mem'[k].preserve_formatting = mem[k].preserve_formatting)
         => /\ mem'[k].formatting = mem[k].formatting
            /\ mem'[k].labels = mem[k].labels
            /\ db'[k].formatting = mem[k].formatting
            /\ db'[k].labels = mem[k].labels]_vars

\* C18 happens: an update that gave no new text has rebuilt a draft whose
\* text createDraft had parsed, and the draft has its lines and its label.
C18_RebuiltTwice ==
  /\ result.op = "update" /\ result.error = "none"
  /\ result.key \in DOMAIN mem
  /\ mem[result.key].dialog_source = DialogBob
  /\ mem[result.key].formatting = ParsedDialogs[DialogBob, FALSE].lines
  /\ mem[result.key].labels = {NickLabel(<<"b", "o", "b">>)}

\* The labels of the nicks matched in a text.
NickLabels(dialog, preserve_formatting) ==
  {NickLabel(nick) : nick \in Nicks(ParsedDialogs[dialog, preserve_formatting].lines)}

\* The nick: labels among the labels of a quote (Quote.label('nick:')).
LabelsOfNicks(labels) ==
  {l \in labels : Len(l) >= 5 /\ SubSeq(l, 1, 5) = NickLabel(<<>>)}

\* C19: after update(newText) on a draft the nick: labels of the quote are
\* exactly the labels of the nicks matched in the new text; a nick of the
\* previous text alone is no longer among them.
C19_UpdateReplacesNickLabels ==
  [][\A k \in DOMAIN mem, dialog \in DialogArgs \ {<<>>},
        do_publish \in BOOLEAN, commit \in BOOLEAN :
       (/\ mem[k].draft
        /\ result'.op = "update" /\ result'.key = k /\ result'.error = "none"
        /\ Update(k, dialog, "None", None, do_publish, commit))
         => LabelsOfNicks(mem'[k].labels)
              = NickLabels(dialog, mem'[k].preserve_formatting)]_vars

\* The logical lines the rule of C20 makes of the physical lines from index
\* k on: the first physical line starts a logical line; a later one starts
\* a logical line when its leading whitespace is at most that of the line
\* that started the current one, and else its stripped text is joined to
\* the current one by a space; the last logical line is emitted.
RECURSIVE LogicalLines(_, _, _, _)
LogicalLines(physical, k, start_indent, cur_line) ==
  IF k > Len(physical) THEN <<JoinSpace(cur_line)>>
  ELSE IF k = 1
    THEN LogicalLines(physical, 2, SpaceRun(physical[1], 1), <<strip(physical[1])>>)
  ELSE IF SpaceRun(physical[k], 1) <= start_indent
    THEN <<JoinSpace(cur_line)>>
         \o LogicalLines(physical, k + 1, SpaceRun(physical[k], 1),
                         <<strip(physical[k])>>)
  ELSE LogicalLines(physical, k + 1, start_indent,
                    Append(cur_line, strip(physical[k])))

\* The texts of the Lines parseDialog yielded.
Originals(lines) == [i \in 1..Len(lines) |-> lines[i].original]

\* No physical line of the dialog is empty or only whitespace.
NoBlankLine(dialog) ==
  \A i \in 1..Len(SplitNL(dialog)) : strip(SplitNL(dialog)[i]) # <<>>

\* C20: the logical lines of parseDialog are those of the indentation rule
\* applied to the physical lines of the dialog: a physical line starts a
\* logical line exactly when its leading whitespace is at most that of the
\* physical line that started the current logical line, the others are
\* joined by one space, and the last logical line is emitted.  Stated for
\* the dialogs whose physical lines all hold text.
C20_LinesFollowIndentation ==
  (/\ yielded.op = "parseDialog"
   /\ yielded.result.error = "none"
   /\ NoBlankLine(yielded.dialog))
    => Originals(yielded.result.lines)
         = LogicalLines(SplitNL(yielded.dialog), 1, 0, <<>>)

\* The characters the matches of a Line excise, all told.
RECURSIVE Excised(_)
Excised(formatting) ==
  IF formatting = <<>> THEN 0
  ELSE Head(formatting).range[2] - Head(formatting).range[1]
       + Excised(Tail(formatting))

\* The matches are in the order of the registry, the time before the nick,
\* and no formatter that is not multiple has two of them.
InOrder(formatting) ==
  \A i, j \in 1..Len(formatting) :
    i < j => /\ ~(formatting[i].kind = "NickFormatter"
                  /\ formatting[j].kind = "TimestampFormatter")
             /\ (formatting[i].kind = formatting[j].kind => formatting[i].multiple)

\* What a formatter's match yields of a match object.
Yielded(m) ==
  [kind |-> m.kind, range |-> m.range, params |-> m.params, multiple |-> m.multiple]

\* Each match is what its formatter finds in the line once the ranges of
\* the matches before it are excised.
OnExcised(line, formatting) ==
  \A i \in 1..Len(formatting) :
    LET m == match(formatting[i].kind,
                   RenderText(line, SubSeq(formatting, 1, i - 1)))
    IN  m.matched /\ formatting[i] = Yielded(m)

\* The text left is the line without the characters excised from its
\* start, unchanged.
RestUnchanged(line, formatting) ==
  RenderText(line, formatting)
    = SubSeq(line, Excised(formatting) + 1, Len(line))

\* C21: parse tries the formatters in registration order, the time before
\* the nick; it yields at most one match of a formatter that is not
\* multiple; each later formatter is run on the text with the ranges of the
\* earlier matches excised; the text outside those ranges is unchanged.
C21_ParseInOrderOnExcisedText ==
  (/\ yielded.op = "Line"
   /\ ~yielded.preserve_formatting
   /\ yielded.result.error = "none")
    => /\ InOrder(yielded.result.line.formatting)
       /\ OnExcised(yielded.dialog, yielded.result.line.formatting)
       /\ RestUnchanged(yielded.dialog, yielded.result.line.formatting)
       /\ (TimestampFormatter_match(yielded.dialog).matched
             => yielded.result.line.formatting[1].kind = "TimestampFormatter")

\* C21 happens: a line with a time and a nick has yielded the match of the
\* time and then that of the nick, and the text left is what follows them.
C21_TimeThenNick ==
  /\ yielded.op = "Line"
  /\ yielded.dialog = LineTimed
  /\ Len(yielded.result.line.formatting) = 2
  /\ yielded.result.line.formatting[1].kind = "TimestampFormatter"
  /\ yielded.result.line.formatting[2].kind = "NickFormatter"
  /\ RenderText(yielded.dialog, yielded.result.line.formatting) = <<"y", "o">>

\* The letters a to z and the digits.
IsLowerAlnum(c) == IsDigit(c) \/ \E i \in 1..Len(LowerCase) : LowerCase[i] = c

\* C23: the normalized_nick NickFormatter extracts holds only lowercase
\* letters and digits; every other character of the nick, the underscore
\* among them, is stripped.
C23_NormalizedNickIsAlphanumeric ==
  (/\ yielded.op = "match"
   /\ yielded.formatter = "NickFormatter"
   /\ yielded.result.matched)
    => \A i \in 1..Len(yielded.result.params.normalized_nick) :
         IsLowerAlnum(yielded.result.params.normalized_nick[i])

\* A line that opens with "<", digits alone and ">".
DigitsInAngles(line) ==
  \E n \in 3..Len(line) :
    /\ line[1] = "<"
    /\ line[n] = ">"
    /\ \A i \in 2..(n - 1) : IsDigit(line[i])

\* C24: NickFormatter.match returns no match when the nick is digits alone,
\* as for "<123> hi"; for "<bob> hello" it returns a match whose range is
\* the leading "<bob> ", so that the text left is "hello", with the
\* normalized_nick "bob".
C24_NickMatch ==
  (yielded.op = "match" /\ yielded.formatter = "NickFormatter")
    => /\ (yielded.result.matched
             => \E i \in 1..Len(yielded.result.params.nick) :
                  ~IsDigit(yielded.result.params.nick[i]))
       /\ (DigitsInAngles(yielded.dialog) => ~yielded.result.matched)
       /\ (yielded.dialog = LineBob
             => /\ yielded.result.matched
                /\ yielded.result.range = <<0, 6>>
                /\ Excise(yielded.dialog, yielded.result.range)
                     = <<"h", "e", "l", "l", "o">>
                /\ yielded.result.params.normalized_nick = <<"b", "o", "b">>)

\* C24 happens: the nick formatter was given "<123> hi" and returned no
\* match.
C24_DigitsRefused ==
  /\ yielded.op = "match"
  /\ yielded.formatter = "NickFormatter"
  /\ yielded.dialog = LineDigits
  /\ ~yielded.result.matched

\* A Line the formatters were not applied to: no match, so that the text
\* getFormattedDialog renders is the original and its params are empty.
Raw(line) ==
  /\ line.formatting = <<>>
  /\ RenderText(line.original, line.formatting) = line.original
  /\ DOMAIN RenderParams(<<>>, line.formatting) = {}

\* C22: when preserve_formatting is set, rebuild() leaves the formatters
\* aside: every parsed Line has no match, its rendered text is its original
\* text with empty params, and the rebuild adds no nick: label.
C22_PreservedLinesAreRaw ==
  [][\A k \in DOMAIN mem :
       (/\ mem[k].draft
        /\ Updated(k)
        /\ mem'[k].preserve_formatting)
         => /\ mem'[k].formatting # <<>>
            /\ \A i \in 1..Len(mem'[k].formatting) : Raw(mem'[k].formatting[i])
            /\ Originals(mem'[k].formatting)
                 = Originals(ParsedDialogs[mem'[k].dialog_source, FALSE].lines)
            /\ LabelsOfNicks(mem'[k].labels) = LabelsOfNicks(mem[k].labels)
            /\ db'[k] = mem'[k]]_vars

\* C22 happens: a draft was updated with another text and with
\* preserve_formatting set; its lines are those of the new text, and the
\* nick of the new text is not among its labels.
C22_PreservedRebuilt ==
  /\ result.op = "update" /\ result.error = "none"
  /\ result.key \in DOMAIN mem
  /\ mem[result.key].preserve_formatting
  /\ mem[result.key].dialog_source = DialogAl
  /\ Originals(mem[result.key].formatting)
       = Originals(ParsedDialogs[DialogAl, FALSE].lines)
  /\ <<"n", "i", "c", "k", ":", "a", "l">> \notin mem[result.key].labels

\* A quote that carries a set of signatures, at most one for each of its
\* parsed lines.
CarriesSignatures(quote) ==
  /\ "signature" \in DOMAIN quote
  /\ Cardinality(quote.signature) <= Len(quote.formatting)

\* C25: after rebuild() the quote carries the set of the signatures of its
\* parsed lines, one for each line whose signature reaches the minimum
\* length, computed anew on every rebuild.
C25_RebuildSetsSignatures ==
  (result.op \in {"createDraft", "update"} /\ result.error = "none"
     /\ result.key \in DOMAIN mem)
    => CarriesSignatures(mem[result.key])

\* The published, non-deleted quotes of an account in a datastore.
PublishedOf(store, account) ==
  {k \in DOMAIN store : /\ store[k].owner = account
                        /\ ~store[k].draft
                        /\ ~store[k].deleted}

\* The step is publish() returning normally on the draft that the edit()
\* just before it returned for the published quote k, no transaction having
\* failed.
PublishesEditOf(k) ==
  /\ result.op = "edit" /\ result.key = k /\ result.error = "none"
  /\ failures = 0
  /\ k \in DOMAIN db /\ ~db[k].draft /\ ~db[k].deleted
  /\ result'.op = "publish" /\ result'.key = result.returned
  /\ result'.error = "none"
  /\ steps' = steps + 1
  /\ now' = now

\* C26: after edit() on a published quote Q and publish() on the draft it
\* returned, Q carries the draft's content, the draft is no longer a quote
\* of its own, and the account has as many published quotes as before.
C26_PublishingEditReplacesOriginal ==
  [][\A k \in DOMAIN mem :
       PublishesEditOf(k) =>
         /\ k \in DOMAIN db'
         /\ db'[k].dialog_source = mem[result.returned].dialog_source
         /\ result.returned \notin DOMAIN db'
         /\ PublishedOf(db', mem[k].owner) = PublishedOf(db, mem[k].owner)]_vars

\* The non-deleted drafts of an account in a datastore.
DraftsOf(store, account) ==
  {k \in DOMAIN store : /\ store[k].owner = account
                        /\ store[k].draft
                        /\ ~store[k].deleted}

\* C27: while every operation has completed (no transaction has failed) and
\* nothing has been unpublished, each account's draft_count is the number of
\* its non-deleted drafts in the datastore, and it is never negative.
C27_DraftCountCountsDrafts ==
  (failures = 0 /\ events.deleted = 0) =>
     \A a \in Accounts :
        /\ accounts[a].draft_count = Cardinality(DraftsOf(db, a))
        /\ accounts[a].draft_count >= 0

\* The step is republish() returning normally on quote k, no transaction
\* having failed.
Republished(k) ==
  /\ failures = 0
  /\ result'.op = "republish" /\ result'.key = k /\ result'.error = "none"
  /\ steps' = steps + 1
  /\ now' = now

\* The site-wide quote counter: one up for each Published event, one down
\* for each Deleted event.
SiteQuoteCount(log) == log.published - log.deleted

\* C28: republishing an edited quote leaves its owner's quote_count as it
\* was and records no second Published event, and a site-wide counter that
\* was the number of published, non-deleted quotes still is after it.
C28_RepublishCountsOnce ==
  [][\A k \in DOMAIN mem :
       Republished(k) =>
         /\ accounts'[mem[k].owner].quote_count = accounts[mem[k].owner].quote_count
         /\ events'.published = events.published
         /\ (SiteQuoteCount(events) = Cardinality(Listed(db))
               => SiteQuoteCount(events') = Cardinality(Listed(db')))]_vars

\* C29: no page of a traversal of a fixed store offers, as its next page,
\* the page specifier it was itself fetched with; a traversal that met one
\* would fetch the same page for ever and never reach a page with no next.
C29_NextCursorDiffersFromOwn ==
  (template.page # NoPage /\ template.next_page # NoPage)
    => template.next_page # template.page

\* The value of `i` that the scan of lines 316-318 would leave if it
\* compared the rows by `property`.
TieScanBy(store, property, quotes, limit) ==
  LET n == Len(quotes)
      differs == {j \in 2..limit :
                    store[quotes[n + 1 - j]][property] # store[quotes[n]][property]}
  IN  IF limit < 2 THEN n - 1
      ELSE IF differs = {} THEN limit
      ELSE CHOOSE j \in differs : \A l \in differs : j <= l

\* C30: when getQuotesByBuildTime returns exactly `limit` rows, the start it
\* returns is the last row's `built` value and the offset it returns comes
\* from comparing the rows' `built` values with the last row's.
C30_NextCursorFromSortProperty ==
  (/\ result.op = "getQuotesByBuildTime"
   /\ Len(result.returned.quotes) = result.limit)
    => /\ result.returned.start =
            db[result.returned.quotes[result.limit]].built
       /\ result.returned.offset =
            TieScanBy(db, "built", result.returned.quotes, result.limit) - 1

\* A time of day datetime.time() accepts.
ValidTime(timestamp) ==
  /\ timestamp[1] \in 0..23
  /\ timestamp[2] \in 0..59
  /\ timestamp[3] \in 0..59

\* C31: making the Line of any text raises nothing, and
\* TimestampFormatter.match raises nothing on any line: a time-like token
\* out of range gives no match or a valid time of day.
C31_ParsingNeverRaises ==
  /\ yielded.op = "Line" => yielded.result.error = "none"
  /\ (yielded.op = "match" /\ yielded.formatter = "TimestampFormatter")
       => /\ yielded.result.error = "none"
          /\ yielded.result.matched => ValidTime(yielded.result.params.timestamp)

====
